---- MODULE Spec2Model ----
(***************************************************************************)
(* Model of the marketplace synchronisation scripts seller.py (Ozon) and   *)
(* market.py (Yandex Market): paginated listing of the offer ids, the      *)
(* reconciliation of the stock records with the offer ids (create_stocks,  *)
(* create_prices), the chunking generator divide, the chunk-by-chunk       *)
(* submission of the batches, and the main of each script.                 *)
(*                                                                         *)
(* Python strings that the code inspects character by character (raw       *)
(* quantities, raw prices) are sequences of one-character strings.  A      *)
(* Python call that may raise returns a record with a field "raised".      *)
(*                                                                         *)
(* market.py does not compile as it stands (line 108, the payload of       *)
(* update_price, is not an expression); its other functions are modelled   *)
(* as they are written.                                                    *)
(***************************************************************************)
EXTENDS Integers, Sequences, FiniteSets, TLC

VARIABLES
    pc,              \* position of the running entry point
    platform,        \* "seller" (Ozon, seller.py) or "market" (Yandex, market.py)
    catalogue,       \* remote: the offer ids listed at the marketplace, in order
    remote_pos,      \* remote: how many catalogue entries the pages served so far hold
    pages_served,    \* remote: how many successful pages were served so far
    page,            \* get_offer_ids: last_id / page (0 is the empty string)
    product_list,    \* get_offer_ids: the products accumulated so far
    page_failed,     \* history: some listing request answered with a non-success status
    offer_ids,       \* the caller's offer-id list (a mutable Python list)
    watch_remnants,  \* the stock records of the spreadsheet
    stocks,          \* the stock batch
    prices,          \* the price batch
    limits,          \* the chunk size the submission loops use
    calls,           \* log of the remote update calls issued, in order
    returns,         \* log of what the reconciliation calls returned, in order
    now,             \* the clock read by market.create_stocks
    error,           \* the exception that ended the entry point ("" when none)
    pending,         \* the chunks of the batch being submitted that are not sent yet
    entry,           \* the function being run
    campaign,        \* market.py main: the campaign being synchronised ("" elsewhere)
    lst,             \* divide: the list argument
    n,               \* divide: the size argument
    out              \* divide: what list(divide(lst, n)) gave

vars == << pc, platform, catalogue, remote_pos, pages_served, page, product_list,
           page_failed, offer_ids, watch_remnants, stocks, prices, limits, calls,
           returns, now, error, pending, entry, campaign, lst, n, out >>

(***************************************************************************)
(* Bounds of the model.                                                    *)
(***************************************************************************)
MaxRecords == 2     \* rows of the spreadsheet
MaxPages == 3       \* successful pages the remote splits a catalogue into
PageLimit == 2      \* entries a listing page holds at most (the "limit" of the request)
MaxCalls == 2       \* reconciliation calls made on the same argument objects
MaxLimit == 3       \* chunk sizes tried by the submission loops
MaxBatch == 5       \* length of a submitted batch
MaxLen == 5         \* length of the list given to divide
MaxSize == 3        \* divide is tried with every size in -MaxSize..MaxSize

(***************************************************************************)
(* Sequences and Python strings.                                           *)
(***************************************************************************)
Range(s) == { s[i] : i \in 1..Len(s) }

Min(a, b) == IF a <= b THEN a ELSE b

NoRepeat(s) == \A i, j \in 1..Len(s) : s[i] = s[j] => i = j

SeqsUpTo(S, k) == UNION { [1..m -> S] : m \in 0..k }

RECURSIVE Flatten(_)
Flatten(ss) == IF ss = << >> THEN << >> ELSE Head(ss) \o Flatten(Tail(ss))

Digits == << "0", "1", "2", "3", "4", "5", "6", "7", "8", "9" >>

IsDigit(c) == c \in Range(Digits)

DigitVal(c) == (CHOOSE i \in 1..10 : Digits[i] = c) - 1

RECURSIVE DecimalValue(_)
DecimalValue(ds) ==
    IF ds = << >> THEN 0
    ELSE 10 * DecimalValue(SubSeq(ds, 1, Len(ds) - 1)) + DigitVal(ds[Len(ds)])

\* int(s) for a str s: an optional sign followed by one or more decimal digits is
\* the integer written; anything else raises ValueError.
PyInt(s) ==
    LET signed == s # << >> /\ s[1] \in { "-", "+" }
        body == IF signed THEN Tail(s) ELSE s
    IN  IF body # << >> /\ \A i \in 1..Len(body) : IsDigit(body[i])
        THEN [ raised |-> FALSE,
               value |-> IF signed /\ s[1] = "-" THEN 0 - DecimalValue(body)
                         ELSE DecimalValue(body) ]
        ELSE [ raised |-> TRUE, value |-> 0 ]

\* price.split(".")[0]: the text before the first "."
RECURSIVE BeforeFirstDot(_)
BeforeFirstDot(s) ==
    IF s = << >> \/ Head(s) = "." THEN << >>
    ELSE << Head(s) >> \o BeforeFirstDot(Tail(s))

\* re.sub("[^0-9]", "", s): s without the characters that are not digits
OnlyDigits(s) == SelectSeq(s, IsDigit)

price_conversion(price) == OnlyDigits(BeforeFirstDot(price))

(***************************************************************************)
(* divide: the chunking generator, as list(divide(lst, n)) consumes it.    *)
(***************************************************************************)
\* range(0, stop, step): raises ValueError for a zero step
RECURSIVE RangeFrom(_, _, _)
RangeFrom(i, stop, step) ==
    IF (step > 0 /\ i < stop) \/ (step < 0 /\ i > stop)
    THEN << i >> \o RangeFrom(i + step, stop, step)
    ELSE << >>

PyRange(stop, step) ==
    IF step = 0 THEN [ raised |-> TRUE, value |-> << >> ]
    ELSE [ raised |-> FALSE, value |-> RangeFrom(0, stop, step) ]

\* l[i : j] for 0 <= i <= len(l): the bounds are clipped to the list
Slice(l, i, j) ==
    LET hi == IF j < 0 THEN Len(l) + j ELSE Min(j, Len(l))
    IN  IF hi <= i THEN << >> ELSE SubSeq(l, i + 1, hi)

\* a divide whose slices run one element too far
divide_overlapping(l, size) ==
    LET r == PyRange(Len(l), size)
    IN  [ raised |-> r.raised,
          value |-> [ k \in 1..Len(r.value) |->
                        Slice(l, r.value[k], r.value[k] + size + 1) ] ]

divide(l, size) ==
    LET r == PyRange(Len(l), size)
    IN  [ raised |-> r.raised,
          value |-> [ k \in 1..Len(r.value) |->
                        Slice(l, r.value[k], r.value[k] + size) ] ]

(***************************************************************************)
(* Reconciliation: create_stocks and create_prices of both scripts.  A     *)
(* stock record is a row of the spreadsheet: code is the column "Код",     *)
(* quantity the column "Количество", price the column "Цена".              *)
(***************************************************************************)
GT10 == << ">", "1", "0" >>

ONE == << "1" >>

\* a create_stocks that forgets to drain the list
list_remove_none(l, x) == l

\* list.remove(x): the list without the first occurrence of x
RECURSIVE list_remove(_, _)
list_remove(l, x) ==
    IF l = << >> THEN << >>
    ELSE IF Head(l) = x THEN Tail(l)
    ELSE << Head(l) >> \o list_remove(Tail(l), x)

\* the quantity rule without the special case of "1"
stock_count_plain(count) ==
    IF count = GT10 THEN [ raised |-> FALSE, value |-> 100 ] ELSE PyInt(count)

\* the quantity rule of create_stocks
stock_count(count) ==
    IF count = GT10 THEN [ raised |-> FALSE, value |-> 100 ]
    ELSE IF count = ONE THEN [ raised |-> FALSE, value |-> 0 ]
    ELSE PyInt(count)

\* seller.py: one entry of the stock batch
seller_stock(offer_id, stock) == [ offer_id |-> offer_id, stock |-> stock ]

\* market.py: one entry of the stock batch
market_stock(sku, warehouse_id, count, date) ==
    [ sku |-> sku, warehouseId |-> warehouse_id,
      items |-> << [ count |-> count, type |-> "FIT", updatedAt |-> date ] >> ]

\* The loop over the records.  ids is the caller's list, drained as records match;
\* the result carries the list as the call leaves it, also when the call raises.
RECURSIVE seller_stocks_loop(_, _, _)
seller_stocks_loop(remnants, ids, acc) ==
    IF remnants = << >> THEN [ raised |-> FALSE, value |-> acc, offer_ids |-> ids ]
    ELSE LET watch == Head(remnants)
         IN  IF watch.code \in Range(ids)
             THEN LET stock == stock_count(watch.quantity)
                  IN  IF stock.raised
                      THEN [ raised |-> TRUE, value |-> << >>, offer_ids |-> ids ]
                      ELSE seller_stocks_loop(
                               Tail(remnants), list_remove(ids, watch.code),
                               Append(acc, seller_stock(watch.code, stock.value)))
             ELSE seller_stocks_loop(Tail(remnants), ids, acc)

create_stocks(remnants, ids) ==
    LET matched == seller_stocks_loop(remnants, ids, << >>)
    IN  IF matched.raised THEN matched
        ELSE [ matched EXCEPT !.value =
                 @ \o [ k \in 1..Len(matched.offer_ids) |->
                          seller_stock(matched.offer_ids[k], 0) ] ]

RECURSIVE market_stocks_loop(_, _, _, _, _)
market_stocks_loop(remnants, ids, warehouse_id, date, acc) ==
    IF remnants = << >> THEN [ raised |-> FALSE, value |-> acc, offer_ids |-> ids ]
    ELSE LET watch == Head(remnants)
         IN  IF watch.code \in Range(ids)
             THEN LET stock == stock_count(watch.quantity)
                  IN  IF stock.raised
                      THEN [ raised |-> TRUE, value |-> << >>, offer_ids |-> ids ]
                      ELSE market_stocks_loop(
                               Tail(remnants), list_remove(ids, watch.code),
                               warehouse_id, date,
                               Append(acc, market_stock(watch.code, warehouse_id,
                                                        stock.value, date)))
             ELSE market_stocks_loop(Tail(remnants), ids, warehouse_id, date, acc)

\* date is the value of datetime.utcnow() the call reads
market_create_stocks(remnants, ids, warehouse_id, date) ==
    LET matched == market_stocks_loop(remnants, ids, warehouse_id, date, << >>)
    IN  IF matched.raised THEN matched
        ELSE [ matched EXCEPT !.value =
                 @ \o [ k \in 1..Len(matched.offer_ids) |->
                          market_stock(matched.offer_ids[k], warehouse_id, 0, date) ] ]

seller_price(watch) ==
    [ auto_action_enabled |-> "UNKNOWN", currency_code |-> "RUB",
      offer_id |-> watch.code, old_price |-> "0",
      price |-> price_conversion(watch.price) ]

\* a create_prices that drains the list the way create_stocks does
create_prices_draining(remnants, ids) ==
    LET hit == SelectSeq(remnants, LAMBDA watch : watch.code \in Range(ids))
    IN  [ raised |-> FALSE,
          value |-> [ k \in 1..Len(hit) |-> seller_price(hit[k]) ],
          offer_ids |-> SelectSeq(ids, LAMBDA c : \A k \in 1..Len(hit) : hit[k].code # c) ]

create_prices(remnants, ids) ==
    LET hit == SelectSeq(remnants, LAMBDA watch : watch.code \in Range(ids))
    IN  [ raised |-> FALSE,
          value |-> [ k \in 1..Len(hit) |-> seller_price(hit[k]) ],
          offer_ids |-> ids ]

\* market.py converts the digits to an int, which raises when there are none
market_create_prices(remnants, ids) ==
    LET hit == SelectSeq(remnants, LAMBDA watch : watch.code \in Range(ids))
        bad == { k \in 1..Len(hit) : PyInt(price_conversion(hit[k].price)).raised }
        first_bad == CHOOSE k \in bad : \A j \in bad : k <= j
        upto == IF bad = { } THEN Len(hit) ELSE first_bad - 1
    IN  [ raised |-> bad # { },
          value |-> IF bad # { } THEN << >>
                    ELSE [ k \in 1..upto |->
                             [ id |-> hit[k].code,
                               price |-> [ value |-> PyInt(price_conversion(hit[k].price)).value,
                                           currencyId |-> "RUR" ] ] ],
          offer_ids |-> ids ]

\* the offer id and the quantity of an entry of a stock batch, on either platform
StockId(u) == IF "sku" \in DOMAIN u THEN u.sku ELSE u.offer_id

StockQty(u) == IF "sku" \in DOMAIN u THEN u.items[1].count ELSE u.stock

PriceId(u) == IF "id" \in DOMAIN u THEN u.id ELSE u.offer_id

(***************************************************************************)
(* Inputs.                                                                 *)
(***************************************************************************)
OfferIdSet == { "A", "B", "C" }

Codes == { "A", "B", "D" }

QtyRaws == { GT10, ONE, << "5" >>, << "1", "2" >>, << "-", "3" >>, << "x" >> }

\* the spreadsheet lists one price per product code
PriceOf(code) ==
    CASE code = "A" -> << "1", "0", "0", ".", "0", "0" >>
      [] code = "D" -> << ".", "5", "0" >>
      [] OTHER -> << "5", "'", "9", "9", "0", ".", "0", "0", " ", "r", "u", "b", "." >>

Rows == { [ code |-> c, quantity |-> q, price |-> PriceOf(c) ] : c \in Codes, q \in QtyRaws }

RemnantLists == SeqsUpTo(Rows, MaxRecords)

\* the listings without a repeated id, each in the order A, B, C (the reconciliation
\* looks an id up and removes it, neither of which depends on where it stands)
OfferIdLists ==
    { s \in SeqsUpTo(OfferIdSet, Cardinality(OfferIdSet)) :
        \A i, j \in 1..Len(s) :
            i < j => \E a, b \in 1..3 : a < b /\ << "A", "B", "C" >>[a] = s[i]
                                             /\ << "A", "B", "C" >>[b] = s[j] }

Platforms == { "seller", "market" }

NoResult == [ raised |-> FALSE, value |-> << >> ]

FetchIdle ==
    /\ catalogue = << >> /\ remote_pos = 0 /\ pages_served = 0
    /\ page = 0 /\ product_list = << >> /\ page_failed = FALSE

ReconIdle ==
    /\ offer_ids = << >> /\ watch_remnants = << >> /\ stocks = << >>
    /\ prices = << >> /\ returns = << >> /\ now = 0

SubmitIdle == limits = 1 /\ calls = << >> /\ pending = << >>

DivideIdle == lst = << >> /\ n = 1 /\ out = NoResult

fetch_vars == << catalogue, remote_pos, pages_served, page, product_list, page_failed >>

recon_vars == << offer_ids, watch_remnants, stocks, prices, returns, now >>

submit_vars == << limits, calls, pending >>

divide_vars == << lst, n, out >>

(***************************************************************************)
(* list(divide(lst, n)) on its own.                                        *)
(***************************************************************************)
InitDivide ==
    /\ pc = "call" /\ entry = "divide" /\ platform = "seller" /\ error = "" /\ campaign = ""
    /\ FetchIdle /\ ReconIdle /\ SubmitIdle
    /\ lst \in SeqsUpTo({ "a", "b" }, MaxLen)
    /\ n \in (0 - MaxSize)..MaxSize
    /\ out = NoResult

CallDivide ==
    /\ pc = "call" /\ entry = "divide"
    /\ out' = divide(lst, n)
    /\ pc' = "done"
    /\ error' = IF out'.raised THEN "ValueError" ELSE ""
    /\ UNCHANGED << platform, entry, campaign, lst, n, fetch_vars, recon_vars, submit_vars >>

NextDivide == CallDivide

SpecDivide == InitDivide /\ [][NextDivide]_vars

(***************************************************************************)
(* create_stocks and create_prices called on the caller's objects.         *)
(***************************************************************************)
WarehouseId == "warehouse"

InitRecon ==
    /\ pc = "call" /\ entry = "reconcile" /\ error = "" /\ campaign = ""
    /\ platform \in Platforms
    /\ watch_remnants \in RemnantLists
    /\ offer_ids \in OfferIdLists
    /\ catalogue = offer_ids
    /\ remote_pos = 0 /\ pages_served = 0 /\ page = 0
    /\ product_list = << >> /\ page_failed = FALSE
    /\ stocks = << >> /\ prices = << >> /\ returns = << >> /\ now = 0
    /\ SubmitIdle /\ DivideIdle

Returned(fn, ids, r) ==
    [ fn |-> fn, ids |-> ids, raised |-> r.raised, value |-> r.value,
      ids_after |-> r.offer_ids ]

CallCreateStocks ==
    /\ pc = "call" /\ entry = "reconcile"
    /\ Len(returns) < MaxCalls
    /\ LET date == now + 1   \* a call reads the clock later than the call before it
           r == IF platform = "seller" THEN create_stocks(watch_remnants, offer_ids)
                ELSE market_create_stocks(watch_remnants, offer_ids, WarehouseId, date)
       IN  /\ now' = IF platform = "seller" THEN now ELSE date
           /\ offer_ids' = r.offer_ids
           /\ returns' = Append(returns, Returned("create_stocks", offer_ids, r))
           /\ stocks' = IF r.raised THEN stocks ELSE r.value
    /\ UNCHANGED << pc, entry, platform, campaign, error, watch_remnants, prices, catalogue,
                    remote_pos, pages_served, page, product_list, page_failed,
                    submit_vars, divide_vars >>

CallCreatePrices ==
    /\ pc = "call" /\ entry = "reconcile"
    /\ Len(returns) < MaxCalls
    /\ LET r == IF platform = "seller" THEN create_prices(watch_remnants, offer_ids)
                ELSE market_create_prices(watch_remnants, offer_ids)
       IN  /\ offer_ids' = r.offer_ids
           /\ returns' = Append(returns, Returned("create_prices", offer_ids, r))
           /\ prices' = IF r.raised THEN prices ELSE r.value
    /\ UNCHANGED << pc, entry, platform, campaign, error, watch_remnants, stocks, now, catalogue,
                    remote_pos, pages_served, page, product_list, page_failed,
                    submit_vars, divide_vars >>

NextRecon == CallCreateStocks \/ CallCreatePrices

SpecRecon == InitRecon /\ [][NextRecon]_vars

(***************************************************************************)
(* Properties of the reconciliation (checked under SpecRecon).             *)
(***************************************************************************)
StockCalls == { k \in 1..Len(returns) : returns[k].fn = "create_stocks" }

PriceCalls == { k \in 1..Len(returns) : returns[k].fn = "create_prices" }

StockIds(batch) == [ k \in 1..Len(batch) |-> StockId(batch[k]) ]

StockSet(batch) == { << StockId(batch[k]), StockQty(batch[k]) >> : k \in 1..Len(batch) }

HasRow(code) == \E k \in 1..Len(watch_remnants) : watch_remnants[k].code = code

\* the first record of the spreadsheet with this code
FirstRow(code) ==
    watch_remnants[CHOOSE k \in 1..Len(watch_remnants) :
                      /\ watch_remnants[k].code = code
                      /\ \A j \in 1..(k - 1) : watch_remnants[j].code # code]

\* the records a call given the offer ids `ids` matches
MatchedRows(ids) == { FirstRow(c) : c \in { c \in Range(ids) : HasRow(c) } }

\* the quantity rule, value by value
QtyTable(q) ==
    CASE q = << ">", "1", "0" >> -> [ raised |-> FALSE, value |-> 100 ]
      [] q = << "1" >> -> [ raised |-> FALSE, value |-> 0 ]
      [] q = << "5" >> -> [ raised |-> FALSE, value |-> 5 ]
      [] q = << "1", "2" >> -> [ raised |-> FALSE, value |-> 12 ]
      [] q = << "-", "3" >> -> [ raised |-> FALSE, value |-> 0 - 3 ]
      [] OTHER -> [ raised |-> TRUE, value |-> 0 ]

Row(code, quantity) == [ code |-> code, quantity |-> quantity, price |-> PriceOf(code) ]

\* C1: a batch returned by create_stocks holds exactly one StockUpdate per offer id
\* the call was given and none for another code; its quantity is the normalized
\* quantity of the matching record when there is one, else 0.  With ids {A, B, C}
\* and the records A:"5", D:"1" the batch is A:5, B:0, C:0.
C1_OneUpdatePerOfferId ==
    \A k \in StockCalls :
        LET e == returns[k]
        IN  ~e.raised =>
              /\ NoRepeat(StockIds(e.value))
              /\ Range(StockIds(e.value)) = Range(e.ids)
              /\ \A u \in Range(e.value) :
                    StockQty(u) = IF HasRow(StockId(u))
                                  THEN stock_count(FirstRow(StockId(u)).quantity).value
                                  ELSE 0
              /\ ( /\ watch_remnants = << Row("A", << "5" >>), Row("D", << "1" >>) >>
                   /\ Range(e.ids) = { "A", "B", "C" } )
                 => StockSet(e.value) = { << "A", 5 >>, << "B", 0 >>, << "C", 0 >> }

\* a batch was returned for the offer ids A, B, C and the records A:"5", D:"1"
C1_Witness ==
    \E k \in StockCalls :
        /\ ~returns[k].raised
        /\ returns[k].ids = << "A", "B", "C" >>
        /\ watch_remnants = << Row("A", << "5" >>), Row("D", << "1" >>) >>
        /\ Len(returns[k].value) = 3

\* C5: the quantity of a matched record's StockUpdate is 100 for ">10", 0 for "1",
\* the integer written for another numeral; the call raises, and returns no batch,
\* exactly when a matched record's quantity is not a numeral.
C5_QuantityRule ==
    \A k \in StockCalls :
        LET e == returns[k]
            rows == MatchedRows(e.ids)
        IN  /\ e.raised <=> \E w \in rows : QtyTable(w.quantity).raised
            /\ e.raised => e.value = << >>
            /\ ~e.raised =>
                 \A w \in rows : << w.code, QtyTable(w.quantity).value >> \in StockSet(e.value)

\* a batch holding 100 for a ">10" record and 0 for a "1" record was returned
C5_Witness ==
    \E k \in StockCalls :
        /\ ~returns[k].raised
        /\ \E w1, w2 \in MatchedRows(returns[k].ids) :
              w1.quantity = GT10 /\ w2.quantity = ONE /\ w1.code # w2.code

\* C10 as claimed: every StockUpdate of a returned batch has a quantity >= 0
C10_QuantityNonNegative ==
    \A k \in StockCalls : \A u \in Range(returns[k].value) : StockQty(u) >= 0

\* C9 as claimed: a second call on the same objects returns the same set as the
\* first, and a call leaves the caller's offer-id collection as it was.
C9_Repeatable ==
    /\ \A i, j \in StockCalls :
          (~returns[i].raised /\ ~returns[j].raised)
          => StockSet(returns[i].value) = StockSet(returns[j].value)
    /\ \A i, j \in PriceCalls : Range(returns[i].value) = Range(returns[j].value)
    /\ \A k \in 1..Len(returns) : returns[k].ids_after = returns[k].ids

\* C9 amended: create_prices changes neither argument and returns the same batch
\* when called again on the same objects; create_stocks removes from the caller's
\* offer-id collection the code of every record it matched, so a second call on
\* the same objects returns quantity 0 for each id that is left, which is the set
\* the first call returned exactly when the first call matched no record.
C9_RepeatableUnlessMatched ==
    /\ \A k \in PriceCalls :
          /\ returns[k].ids_after = returns[k].ids
          /\ \A j \in PriceCalls :
                returns[j].ids = returns[k].ids => returns[j].value = returns[k].value
    /\ \A k \in StockCalls :
          ~returns[k].raised =>
             /\ returns[k].ids_after =
                   SelectSeq(returns[k].ids, LAMBDA c : ~HasRow(c))
             /\ (k + 1) \in StockCalls /\ ~returns[k + 1].raised =>
                   /\ StockSet(returns[k + 1].value) =
                         { << c, 0 >> : c \in Range(returns[k].ids_after) }
                   /\ StockSet(returns[k + 1].value) = StockSet(returns[k].value)
                      <=> \A c \in Range(returns[k].ids) : ~HasRow(c)
    /\ \A k \in 1..Len(returns) : k < Len(returns) => returns[k + 1].ids = returns[k].ids_after

\* create_stocks was called twice on the same objects and the first call matched
\* a record
C9_Witness ==
    /\ Len(returns) >= 2
    /\ returns[1].fn = "create_stocks" /\ returns[2].fn = "create_stocks"
    /\ ~returns[1].raised /\ ~returns[2].raised
    /\ returns[1].ids_after # returns[1].ids

(***************************************************************************)
(* Properties of divide (checked under SpecDivide).                        *)
(***************************************************************************)
\* C6: for a positive size n, list(divide(lst, n)) is a sequence of non-empty
\* contiguous slices, each of length n except the last, which has between 1 and n
\* elements; the slices concatenated in order are lst; an empty lst gives none.
C6_DivideChunks ==
    (pc = "done" /\ n > 0) =>
        /\ ~out.raised
        /\ Flatten(out.value) = lst
        /\ \A k \in 1..Len(out.value) :
              /\ Len(out.value[k]) >= 1
              /\ Len(out.value[k]) <= n
              /\ k < Len(out.value) => Len(out.value[k]) = n
              /\ out.value[k] = SubSeq(lst, (k - 1) * n + 1, (k - 1) * n + Len(out.value[k]))
        /\ lst = << >> => out.value = << >>
        /\ (Len(lst) = 5 /\ n = 2) =>
              out.value = << SubSeq(lst, 1, 2), SubSeq(lst, 3, 4), SubSeq(lst, 5, 5) >>

\* a list of five elements was divided into chunks of two
C6_Witness == pc = "done" /\ Len(lst) = 5 /\ n = 2 /\ Len(out.value) = 3

\* C7 as claimed: for a size n <= 0 the call fails, whatever the list
C7_RejectsNonPositive == (pc = "done" /\ n <= 0) => out.raised

(***************************************************************************)
(* Paginated listing: get_product_list and the loop of get_offer_ids.      *)
(***************************************************************************)
\* one entry of a listing page
Product(plat, id) ==
    IF plat = "seller" THEN [ offer_id |-> id ] ELSE [ offer |-> [ shopSku |-> id ] ]

\* The answers the remote may give to a listing request that carries `cursor`
\* (last_id on Ozon, page_token on Yandex Market; 0 is the empty string, which
\* asks for the first page).  The remote serves the catalogue in order, in at most
\* MaxPages successful pages of at most PageLimit entries each, any of them
\* possibly empty; asked again after its last page it has nothing left to serve.
\* Ozon reports the total count, Yandex Market a next-page token that is empty on
\* the last page.
RemotePages(plat, cat, pos, served, cursor) ==
    LET pos0 == IF cursor = 0 THEN 0 ELSE pos
        served0 == IF cursor = 0 THEN 0 ELSE served
        left == Len(cat) - pos0
        served1 == Min(served0 + 1, MaxPages)
        sizes == IF served0 >= MaxPages THEN { 0 }
                 ELSE { k \in 0..Min(PageLimit, left) :
                          left - k <= (MaxPages - served0 - 1) * PageLimit }
        ends(k) == IF served0 >= MaxPages THEN { TRUE }
                   ELSE IF plat = "seller" THEN { left = k }
                   ELSE { b \in BOOLEAN : /\ b => left = k
                                          /\ served0 + 1 = MaxPages => b }
        entries(k) == [ i \in 1..k |-> Product(plat, cat[pos0 + i]) ]
        answer(k, last) ==
            [ status |-> "ok",
              result |-> IF plat = "seller"
                         THEN [ items |-> entries(k), total |-> Len(cat),
                                last_id |-> served1 ]
                         ELSE [ offerMappingEntries |-> entries(k),
                                paging |-> [ nextPageToken |-> IF last THEN 0 ELSE served1 ] ],
              pos |-> pos0 + k, served |-> served1 ]
    IN  UNION { { answer(k, last) : last \in ends(k) } : k \in sizes }

\* any request may instead be answered with a non-success status
RemoteFailure(pos, served) ==
    [ status |-> "error", result |-> << >>, pos |-> pos, served |-> served ]

\* response.raise_for_status(); return response.json().get("result")
get_product_list(response) ==
    IF response.status = "ok" THEN [ raised |-> FALSE, value |-> response.result ]
    ELSE [ raised |-> TRUE, value |-> << >> ]

\* a loop that stops at the failed page and keeps what it has
seller_offer_ids_step_partial(products, some_prod) ==
    IF some_prod.raised
    THEN [ raised |-> FALSE, done |-> TRUE, product_list |-> products, cursor |-> 0 ]
    ELSE LET all == products \o some_prod.value.items
         IN  [ raised |-> FALSE, done |-> some_prod.value.total = Len(all),
               product_list |-> all, cursor |-> some_prod.value.last_id ]

\* a loop that compares the total with the length of the page
seller_offer_ids_step_page_total(products, some_prod) ==
    IF some_prod.raised
    THEN [ raised |-> TRUE, done |-> TRUE, product_list |-> products, cursor |-> 0 ]
    ELSE LET all == products \o some_prod.value.items
         IN  [ raised |-> FALSE, done |-> some_prod.value.total = Len(some_prod.value.items),
               product_list |-> all, cursor |-> some_prod.value.last_id ]

\* seller.py: one iteration of the while loop of get_offer_ids, given what
\* get_product_list did
seller_offer_ids_step(products, some_prod) ==
    IF some_prod.raised
    THEN [ raised |-> TRUE, done |-> TRUE, product_list |-> products, cursor |-> 0 ]
    ELSE LET all == products \o some_prod.value.items
         IN  [ raised |-> FALSE, done |-> some_prod.value.total = Len(all),
               product_list |-> all, cursor |-> some_prod.value.last_id ]

\* market.py: one iteration of the while loop of get_offer_ids
market_offer_ids_step(products, some_prod) ==
    IF some_prod.raised
    THEN [ raised |-> TRUE, done |-> TRUE, product_list |-> products, cursor |-> 0 ]
    ELSE LET all == products \o some_prod.value.offerMappingEntries
             token == some_prod.value.paging.nextPageToken
         IN  [ raised |-> FALSE, done |-> token = 0, product_list |-> all, cursor |-> token ]

\* the list get_offer_ids builds from the accumulated products
seller_offer_ids_of(products) == [ k \in 1..Len(products) |-> products[k].offer_id ]

market_offer_ids_of(products) == [ k \in 1..Len(products) |-> products[k].offer.shopSku ]

\* where the entry point goes on when a call it makes raises: the try block of
\* main (seller.py) and of main (market.py, "market_main") catches the exception
\* and prints it, the other functions let it reach their caller
WhenRaised(fn) == IF fn \in { "main", "market_main" } THEN "done" ELSE "raised"

AfterListing(fn) ==
    IF fn = "main" THEN "download"
    ELSE IF fn = "market_main" THEN "create_stocks"
    ELSE "returned"

\* The listings a run of main is tried with.  Offer ids are unique within a store,
\* but nothing in the scripts depends on the remote honouring it: one listing
\* names an offer twice.
Catalogues ==
    { SubSeq(<< "A", "B", "C" >>, 1, k) : k \in 0..Cardinality(OfferIdSet) }
    \cup { << "A", "A" >> }

\* one pass of the loop of get_offer_ids, given the answer to its request
Listing(answer) ==
    LET some_prod == get_product_list(answer)
        step == IF platform = "seller"
                THEN seller_offer_ids_step(product_list, some_prod)
                ELSE market_offer_ids_step(product_list, some_prod)
    IN  /\ remote_pos' = answer.pos
        /\ pages_served' = answer.served
        /\ page_failed' = (page_failed \/ answer.status = "error")
        /\ product_list' = step.product_list
        /\ page' = step.cursor
        /\ pc' = IF step.raised THEN WhenRaised(entry)
                 ELSE IF step.done THEN AfterListing(entry) ELSE "fetch"
        /\ error' = IF step.raised THEN "HTTPError" ELSE error
        /\ offer_ids' = IF step.raised \/ ~step.done THEN offer_ids
                        ELSE IF platform = "seller"
                             THEN seller_offer_ids_of(step.product_list)
                             ELSE market_offer_ids_of(step.product_list)
        /\ UNCHANGED << platform, entry, campaign, catalogue, watch_remnants, stocks, prices,
                        returns, now, submit_vars, divide_vars >>

\* the request is answered with a page
ListPage ==
    /\ pc = "fetch"
    /\ \E answer \in RemotePages(platform, catalogue, remote_pos, pages_served, page) :
          Listing(answer)

\* the request is answered with a non-success status
ListPageFails ==
    /\ pc = "fetch"
    /\ Listing(RemoteFailure(remote_pos, pages_served))

InitFetch ==
    /\ pc = "fetch" /\ entry = "get_offer_ids" /\ error = "" /\ campaign = ""
    /\ platform \in Platforms
    /\ catalogue \in OfferIdLists
    /\ remote_pos = 0 /\ pages_served = 0 /\ page = 0
    /\ product_list = << >> /\ page_failed = FALSE
    /\ ReconIdle /\ SubmitIdle /\ DivideIdle

NextFetch == ListPage \/ ListPageFails

SpecFetch == InitFetch /\ [][NextFetch]_vars

\* The loop is not suspended for ever: a request is answered and the loop goes on.
\* Nothing obliges the remote ever to fail.
FairFetch == SpecFetch /\ WF_vars(ListPage)

(***************************************************************************)
(* Properties of get_offer_ids.                                            *)
(***************************************************************************)
\* C3: get_offer_ids ends, by returning or by raising, for every catalogue and
\* every way the remote splits it into pages, empty pages included.
C3_ListingTerminates == <>(pc \in { "returned", "raised" })

\* a listing returned although the remote served more pages than the catalogue
\* has entries, so that one of the pages was empty
C3_Witness ==
    /\ pc = "returned" /\ ~page_failed
    /\ Len(catalogue) >= 1 /\ pages_served > Len(catalogue)

\* C4: once a page request has answered with a non-success status get_offer_ids
\* has raised, and the caller was handed no offer id, whatever the pages before
\* the failed one held.
C4_NoPartialListing ==
    page_failed => /\ pc = "raised"
                   /\ error = "HTTPError"
                   /\ offer_ids = << >>

\* a request failed after two pages with entries had been accumulated
C4_Witness == page_failed /\ pages_served >= 2 /\ Len(product_list) >= 2

(***************************************************************************)
(* Submission: the loops that send a batch chunk by chunk.                 *)
(***************************************************************************)
\* an update call that does not look at the status of the response
update_call_unchecked(ok) == [ raised |-> FALSE ]

\* update_stocks / update_price: the request, then response.raise_for_status()
update_call(ok) == [ raised |-> ~ok ]

AfterSubmit(fn, kind) ==
    IF fn = "main" THEN (IF kind = "stocks" THEN "create_prices" ELSE "done")
    ELSE IF fn = "market_main" THEN "upload_prices"
    ELSE "returned"

\* what upload_stocks returns: the updates with a quantity other than 0, and all
not_empty(batch) == SelectSeq(batch, LAMBDA stock : StockQty(stock) # 0)

\* the log of returns once upload_stocks / upload_prices has returned
UploadReturn(fn, log, ids, stock_batch, price_batch) ==
    IF fn = "upload_stocks"
    THEN Append(log, Returned(fn, ids, [ raised |-> FALSE, offer_ids |-> ids,
                                         value |-> << not_empty(stock_batch), stock_batch >> ]))
    ELSE IF fn = "upload_prices"
    THEN Append(log, Returned(fn, ids, [ raised |-> FALSE, offer_ids |-> ids,
                                         value |-> price_batch ]))
    ELSE log

\* one pass of a submission loop: the next chunk is sent, `ok` tells whether the
\* remote answered with a success status
SubmitChunk(kind, ok) ==
    LET r == update_call(ok)
        rest == Tail(pending)
    IN  /\ pending # << >>
        /\ calls' = Append(calls, [ endpoint |-> kind, campaign |-> campaign,
                                  payload |-> Head(pending), ok |-> ok ])
        /\ pending' = IF r.raised THEN pending ELSE rest
        /\ error' = IF r.raised THEN "HTTPError" ELSE error
        /\ pc' = IF r.raised THEN WhenRaised(entry)
                 ELSE IF rest = << >> THEN AfterSubmit(entry, kind) ELSE pc
        /\ returns' = IF ~r.raised /\ rest = << >>
                      THEN UploadReturn(entry, returns, offer_ids, stocks, prices)
                      ELSE returns
        /\ UNCHANGED << platform, entry, campaign, fetch_vars, offer_ids, watch_remnants, stocks,
                        prices, now, limits, divide_vars >>

SubmitStocks == pc = "submit_stocks" /\ \E ok \in BOOLEAN : SubmitChunk("stocks", ok)

SubmitPrices == pc = "submit_prices" /\ \E ok \in BOOLEAN : SubmitChunk("prices", ok)

(***************************************************************************)
(* seller.py main: one synchronisation run.                                *)
(***************************************************************************)
\* download_stock() returns the rows of the spreadsheet
DownloadStock ==
    /\ pc = "download" /\ entry = "main"
    /\ watch_remnants' \in RemnantLists
    /\ pc' = "create_stocks"
    /\ UNCHANGED << platform, entry, campaign, error, fetch_vars, offer_ids, stocks, prices,
                    returns, now, submit_vars, divide_vars >>

\* download_stock() raises: the download timed out, could not connect, or was
\* answered with a non-success status
DownloadFails ==
    /\ pc = "download" /\ entry = "main"
    /\ error' \in { "ReadTimeout", "ConnectionError", "HTTPError" }
    /\ pc' = WhenRaised(entry)
    /\ UNCHANGED << platform, entry, campaign, fetch_vars, recon_vars, submit_vars, divide_vars >>

\* stocks = create_stocks(watch_remnants, offer_ids), then list(divide(stocks, 100))
CreateStocks ==
    /\ pc = "create_stocks" /\ entry = "main"
    /\ LET r == create_stocks(watch_remnants, offer_ids)
           chunks == divide(r.value, limits)
       IN  /\ offer_ids' = r.offer_ids
           /\ returns' = Append(returns, Returned("create_stocks", offer_ids, r))
           /\ stocks' = IF r.raised THEN stocks ELSE r.value
           /\ pending' = IF r.raised \/ chunks.raised THEN << >> ELSE chunks.value
           /\ error' = IF r.raised \/ chunks.raised THEN "ValueError" ELSE error
           /\ pc' = IF r.raised \/ chunks.raised THEN WhenRaised(entry)
                    ELSE IF chunks.value = << >> THEN AfterSubmit(entry, "stocks")
                    ELSE "submit_stocks"
    /\ UNCHANGED << platform, entry, campaign, fetch_vars, watch_remnants, prices, now, limits,
                    calls, divide_vars >>

\* prices = create_prices(watch_remnants, offer_ids), then list(divide(prices, 900))
CreatePrices ==
    /\ pc = "create_prices" /\ entry = "main"
    /\ LET r == create_prices(watch_remnants, offer_ids)
           chunks == divide(r.value, limits)
       IN  /\ offer_ids' = r.offer_ids
           /\ returns' = Append(returns, Returned("create_prices", offer_ids, r))
           /\ prices' = r.value
           /\ pending' = IF chunks.raised THEN << >> ELSE chunks.value
           /\ error' = IF chunks.raised THEN "ValueError" ELSE error
           /\ pc' = IF chunks.raised THEN WhenRaised(entry)
                    ELSE IF chunks.value = << >> THEN AfterSubmit(entry, "prices")
                    ELSE "submit_prices"
    /\ UNCHANGED << platform, entry, campaign, fetch_vars, watch_remnants, stocks, now, limits,
                    calls, divide_vars >>

Init ==
    /\ pc = "fetch" /\ entry = "main" /\ platform = "seller" /\ error = "" /\ campaign = ""
    /\ catalogue \in Catalogues
    /\ remote_pos = 0 /\ pages_served = 0 /\ page = 0
    /\ product_list = << >> /\ page_failed = FALSE
    /\ ReconIdle
    /\ limits \in 1..MaxLimit
    /\ calls = << >> /\ pending = << >>
    /\ DivideIdle

Next ==
    \/ ListPage
    \/ ListPageFails
    \/ DownloadStock
    \/ DownloadFails
    \/ CreateStocks
    \/ SubmitStocks
    \/ CreatePrices
    \/ SubmitPrices

Spec == Init /\ [][Next]_vars

(***************************************************************************)
(* upload_stocks and upload_prices (the body of the coroutine, once it is  *)
(* driven), and the loops of main, on batches of up to MaxBatch updates.   *)
(***************************************************************************)
IdNames == << "A", "B", "C", "E", "F", "G", "H", "I" >>

BatchIds(k) == SubSeq(IdNames, 1, k)

BatchRows(k) == [ i \in 1..k |-> Row(IdNames[i], << "5" >>) ]

\* upload_stocks / upload_prices from the return of get_offer_ids on: the batch is
\* built, cut into chunks, and returned at once when there is no chunk
UploadCreate ==
    /\ pc = "create" /\ entry \in { "upload_stocks", "upload_prices" }
    /\ \E date \in { now, now + 1 } :
         LET kind == IF entry = "upload_stocks" THEN "stocks" ELSE "prices"
             r == IF entry = "upload_stocks"
                  THEN IF platform = "seller" THEN create_stocks(watch_remnants, offer_ids)
                       ELSE market_create_stocks(watch_remnants, offer_ids, WarehouseId, date)
                  ELSE IF platform = "seller" THEN create_prices(watch_remnants, offer_ids)
                       ELSE market_create_prices(watch_remnants, offer_ids)
             chunks == divide(r.value, limits)
             failed == r.raised \/ chunks.raised
             log == Append(returns, Returned("create_" \o kind, offer_ids, r))
         IN  /\ now' = IF entry = "upload_stocks" /\ platform = "market" THEN date ELSE now
             /\ offer_ids' = r.offer_ids
             /\ stocks' = IF kind = "stocks" /\ ~r.raised THEN r.value ELSE stocks
             /\ prices' = IF kind = "prices" /\ ~r.raised THEN r.value ELSE prices
             /\ pending' = IF failed THEN << >> ELSE chunks.value
             /\ error' = IF failed THEN "ValueError" ELSE error
             /\ pc' = IF failed THEN WhenRaised(entry)
                      ELSE IF chunks.value = << >> THEN AfterSubmit(entry, kind)
                      ELSE "submit_" \o kind
             /\ returns' = IF ~failed /\ chunks.value = << >>
                           THEN UploadReturn(entry, log, r.offer_ids, stocks', prices')
                           ELSE log
    /\ UNCHANGED << platform, entry, campaign, fetch_vars, watch_remnants, limits, calls,
                    divide_vars >>

InitSubmit ==
    /\ error = "" /\ campaign = ""
    /\ entry \in { "upload_stocks", "upload_prices", "main" }
    /\ platform \in IF entry = "main" THEN { "seller" } ELSE Platforms
    /\ pc = IF entry = "main" THEN "create_stocks" ELSE "create"
    /\ \E k \in 0..MaxBatch :
          /\ catalogue = BatchIds(k)
          /\ offer_ids = BatchIds(k)
          /\ watch_remnants \in { << >>, BatchRows(k) }
    /\ remote_pos = Len(catalogue) /\ pages_served = 1 /\ page = 1
    /\ product_list = [ i \in 1..Len(catalogue) |-> Product(platform, catalogue[i]) ]
    /\ page_failed = FALSE
    /\ stocks = << >> /\ prices = << >> /\ returns = << >> /\ now = 0
    /\ limits \in 1..MaxLimit
    /\ calls = << >> /\ pending = << >>
    /\ DivideIdle

NextSubmit ==
    \/ UploadCreate
    \/ CreateStocks
    \/ CreatePrices
    \/ SubmitStocks
    \/ SubmitPrices

SpecSubmit == InitSubmit /\ [][NextSubmit]_vars

(***************************************************************************)
(* Properties of the submission (checked under SpecSubmit).                *)
(***************************************************************************)
Sent(kind) == SelectSeq(calls, LAMBDA c : c.endpoint = kind)

Batch(kind) == IF kind = "stocks" THEN stocks ELSE prices

NumChunks(batch, size) == (Len(batch) + size - 1) \div size

ChunkAt(batch, size, i) == SubSeq(batch, (i - 1) * size + 1, Min(i * size, Len(batch)))

\* the loop over the chunks of this batch was left without an exception
Submitted(kind) ==
    /\ error = ""
    /\ \/ pc \in { "returned", "done" }
       \/ kind = "stocks" /\ pc \in { "create_prices", "submit_prices" }

\* C8: the update calls issued for a batch are its chunks in order, one call per
\* chunk, up to and including the first chunk whose call fails: every call before
\* it succeeded, no call follows it, the exception leaves the loop, and a loop
\* that ends without an exception has sent every chunk.  Five updates at a limit
\* of 2 are sent in three calls of 2, 2 and 1 updates.
C8_ChunksSentInOrder ==
    \A kind \in { "stocks", "prices" } :
        LET sent == Sent(kind)
            batch == Batch(kind)
        IN  /\ Len(sent) <= NumChunks(batch, limits)
            /\ \A i \in 1..Len(sent) :
                  /\ sent[i].payload = ChunkAt(batch, limits, i)
                  /\ i < Len(sent) => sent[i].ok
            /\ (sent # << >> /\ ~sent[Len(sent)].ok) =>
                  /\ pc = WhenRaised(entry)
                  /\ error = "HTTPError"
                  /\ calls[Len(calls)] = sent[Len(sent)]
            /\ Submitted(kind) => Len(sent) = NumChunks(batch, limits)
            /\ (Submitted(kind) /\ Len(batch) = 5 /\ limits = 2) =>
                  [ i \in 1..Len(sent) |-> Len(sent[i].payload) ] = << 2, 2, 1 >>

\* a batch of five updates was being sent at a limit of 2 and its second call
\* failed
C8_Witness ==
    /\ Len(stocks) = 5 /\ limits = 2
    /\ Len(calls) = 2 /\ calls[1].ok /\ ~calls[2].ok
    /\ pc = "raised"

(***************************************************************************)
(* Properties of a run of seller.py main (checked under Spec).             *)
(***************************************************************************)
\* the codes of the records whose code is among the given offer ids, in order
MatchingCodes(ids) ==
    LET hit == SelectSeq(watch_remnants, LAMBDA w : w.code \in Range(ids))
    IN  [ k \in 1..Len(hit) |-> hit[k].code ]

\* C2 as claimed: the price batch built in a run holds one PriceUpdate for every
\* record whose code is among the offer ids fetched for the run, and no other;
\* the records [A: ">10", "100.00"] with the remote ids [A, B] give the stocks
\* A:100, B:0 and the prices [A:"100"].
C2_PricesForMatchedRecords ==
    \A k \in PriceCalls :
        /\ [ i \in 1..Len(returns[k].value) |-> PriceId(returns[k].value[i]) ]
              = MatchingCodes(catalogue)
        /\ (watch_remnants = << Row("A", GT10) >> /\ catalogue = << "A", "B" >>)
           => /\ StockSet(stocks) = { << "A", 100 >>, << "B", 0 >> }
              /\ Len(prices) = 1
              /\ prices[1].offer_id = "A"
              /\ prices[1].price = << "1", "0", "0" >>

(***************************************************************************)
(* market.py main: one synchronisation run, the FBS campaign and then the  *)
(* DBS campaign.                                                           *)
(***************************************************************************)
Campaigns == << "FBS", "DBS" >>

\* warehouse_fbs_id / warehouse_dbs_id
WarehouseOf(c) == IF c = "FBS" THEN "warehouse_fbs" ELSE "warehouse_dbs"

\* watch_remnants = download_stock(), the statement before the try block
MarketDownloadStock ==
    /\ pc = "download" /\ entry = "market_main"
    /\ watch_remnants' \in RemnantLists
    /\ campaign' = Campaigns[1]
    /\ pc' = "fetch"
    /\ UNCHANGED << platform, entry, error, fetch_vars, offer_ids, stocks, prices,
                    returns, now, submit_vars, divide_vars >>

\* download_stock() raises: no handler encloses the statement, the exception
\* leaves main
MarketDownloadFails ==
    /\ pc = "download" /\ entry = "market_main"
    /\ error' \in { "ReadTimeout", "ConnectionError", "HTTPError" }
    /\ pc' = "raised"
    /\ UNCHANGED << platform, entry, campaign, fetch_vars, recon_vars, submit_vars,
                    divide_vars >>

\* stocks = create_stocks(watch_remnants, offer_ids, warehouse_id), then
\* list(divide(stocks, 2000))
MarketCreateStocks ==
    /\ pc = "create_stocks" /\ entry = "market_main"
    /\ LET date == now + 1
           r == market_create_stocks(watch_remnants, offer_ids, WarehouseOf(campaign), date)
           chunks == divide(r.value, limits)
           failed == r.raised \/ chunks.raised
       IN  /\ now' = date
           /\ offer_ids' = r.offer_ids
           /\ returns' = Append(returns, Returned("create_stocks", offer_ids, r))
           /\ stocks' = IF r.raised THEN stocks ELSE r.value
           /\ pending' = IF failed THEN << >> ELSE chunks.value
           /\ error' = IF failed THEN "ValueError" ELSE error
           /\ pc' = IF failed THEN WhenRaised(entry)
                    ELSE IF chunks.value = << >> THEN AfterSubmit(entry, "stocks")
                    ELSE "submit_stocks"
    /\ UNCHANGED << platform, entry, campaign, fetch_vars, watch_remnants, prices,
                    limits, calls, divide_vars >>

\* upload_prices(watch_remnants, campaign_id, market_token): upload_prices is a
\* coroutine function and the call is not awaited, so the call makes a coroutine
\* object that nothing ever drives and its body is not run.  main goes on to the
\* listing of the next campaign, or to its end.
CallUploadPrices ==
    /\ pc = "upload_prices" /\ entry = "market_main"
    /\ IF campaign = Campaigns[1]
       THEN /\ campaign' = Campaigns[2]
            /\ pc' = "fetch"
            /\ catalogue' \in Catalogues
            /\ remote_pos' = 0 /\ pages_served' = 0 /\ page' = 0
            /\ product_list' = << >>
       ELSE /\ pc' = "done"
            /\ UNCHANGED << campaign, catalogue, remote_pos, pages_served, page,
                            product_list >>
    /\ UNCHANGED << platform, entry, error, page_failed, recon_vars, submit_vars,
                    divide_vars >>

InitMarket ==
    /\ pc = "download" /\ entry = "market_main" /\ platform = "market"
    /\ error = "" /\ campaign = ""
    /\ catalogue \in Catalogues
    /\ remote_pos = 0 /\ pages_served = 0 /\ page = 0
    /\ product_list = << >> /\ page_failed = FALSE
    /\ ReconIdle
    /\ limits \in 1..MaxLimit
    /\ calls = << >> /\ pending = << >>
    /\ DivideIdle

NextMarket ==
    \/ MarketDownloadStock
    \/ MarketDownloadFails
    \/ ListPage
    \/ ListPageFails
    \/ MarketCreateStocks
    \/ SubmitStocks
    \/ CallUploadPrices

SpecMarket == InitMarket /\ [][NextMarket]_vars

(***************************************************************************)
(* Properties of a run of market.py main (checked under SpecMarket).       *)
(***************************************************************************)
\* the update-prices calls issued for a campaign, in order
MarketPriceCalls(c) ==
    SelectSeq(calls, LAMBDA x : x.endpoint = "prices" /\ x.campaign = c)

\* the offer ids main fetched for a campaign: the argument of the create_stocks
\* call of the campaign, the first call for FBS and the second for DBS
ListingOf(c) == returns[IF c = Campaigns[1] THEN 1 ELSE 2].ids

\* main is past the statements of the campaign and none of them raised: it has
\* gone on to the next campaign, or it has ended without an exception
CampaignLeft(c) ==
    IF c = Campaigns[1] THEN campaign = Campaigns[2]
    ELSE campaign = Campaigns[2] /\ pc = "done" /\ error = ""

\* C11 as claimed: once main is past a campaign whose listing and stock
\* submission succeeded, the update-prices calls issued for the campaign are the
\* chunks of its price batch (the prices of the records whose code is listed in
\* the campaign), in order, every one of them after the campaign's stock calls;
\* for FBS this holds from the moment the DBS listing starts.
C11_PricesSentPerCampaign ==
    \A i \in 1..Len(Campaigns) :
        LET c == Campaigns[i]
            batch == market_create_prices(watch_remnants, ListingOf(c))
            chunks == divide(batch.value, limits)
            sent == MarketPriceCalls(c)
        IN  (CampaignLeft(c) /\ ~batch.raised /\ ~chunks.raised) =>
                /\ [ k \in 1..Len(sent) |-> sent[k].payload ] = chunks.value
                /\ \A a, b \in 1..Len(calls) :
                      ( /\ calls[a].campaign = c /\ calls[a].endpoint = "stocks"
                        /\ calls[b].campaign = c /\ calls[b].endpoint = "prices" )
                      => a < b

(***************************************************************************)
(* Properties of main, of either script.                                   *)
(***************************************************************************)
\* a step that issues a remote call: the download of the spreadsheet, a listing
\* request, an update call
RemoteCall ==
    \/ DownloadStock \/ DownloadFails
    \/ MarketDownloadStock \/ MarketDownloadFails
    \/ ListPage \/ ListPageFails
    \/ SubmitStocks \/ SubmitPrices

\* C12 as claimed: once a download, a listing request, an update call or any
\* other statement of main has failed, main has returned normally (the
\* exception did not leave it) and no remote call can follow.
C12_MainCatchesFailures ==
    error # "" => /\ pc = "done"
                  /\ ~ENABLED RemoteCall

====
